---- MODULE Spec2Model ----
(***************************************************************************)
(* Model of hmi_app: the ModbusClient wrapper (modbus/client.py) and the   *)
(* Qt event handlers that drive it (ui/*.py).                              *)
(*                                                                         *)
(* The GUI thread is a stack of handler frames.  A frame holds the steps   *)
(* its handler has still to execute and the position inside the           *)
(* ModbusClient call it is making.  Only the top frame runs; a frame below *)
(* the top is a handler suspended in a nested event loop (QMessageBox).    *)
(* The pymodbus transport is the environment: every call on it returns one *)
(* of the outcomes the library can produce.                                *)
(*                                                                         *)
(* The texts of the pages' widgets are recorded for the items in           *)
(* `observed`, one page at a time (SpecShow); the data read for any other  *)
(* item is left out.  The configuration (config/settings.py, the Settings  *)
(* page's copy of it, what main() builds the client from) is followed by   *)
(* SpecConfig; Spec leaves the outcome of save_config open.  The alarm     *)
(* lists of the Info page (ui/info_page.py) have specifications of their   *)
(* own, SpecAlarm and SpecHistory: their handlers make no Modbus call.     *)
(***************************************************************************)
EXTENDS Integers, Sequences, FiniteSets, TLC

\* ------------------------------------------------------------------ bounds
MaxDelay == 2      \* reconnect_delay ranges over 1..MaxDelay time units
MaxDepth == 3      \* frames the GUI thread may hold at once
MaxAlarmObjs == 7  \* Alarm objects created when single alarms are followed
MaxListed == 6     \* alarms in the current list when the history is followed
MaxOverflow == 2   \* alarms added beyond the limit of the history

\* --------------------------------------------------------------- constants
ReadOps  == {"read_coils", "read_discrete_inputs",
             "read_holding_registers", "read_input_registers"}
WriteOps == {"write_coil", "write_register", "write_registers"}
ClientOps == ReadOps \cup WriteOps
Pages == {"main", "manual", "auto", "info", "settings"}

ConnectOutcomes == {"true", "false", "raise"}
OpOutcomes == {"ok", "error_response", "ConnectionException",
               "ModbusException", "Exception"}

VARIABLES
    connected,         \* ModbusClient.connected
    auto_reconnect,    \* ModbusClient.auto_reconnect
    reconnect_delay,   \* ModbusClient.reconnect_delay
    reachable,         \* environment: the Modbus server answers
    stack,             \* GUI thread: handler frames, top is last
    page,              \* MainWindow.stacked_widget current page
    status_label,      \* MainWindow.status_label shows a connection
    connection_button, \* MainWindow.connection_button text
    timer_due,         \* update_timer has timed out and is not yet served
    observed,          \* the display items whose text the model records
    shown,             \* the text of each display item of the pages
    config_file,       \* content of config/config.json
    DEFAULT_CONFIG,    \* settings.DEFAULT_CONFIG["modbus"], a module global
    settings_config,   \* SettingsPage.config: the object it refers to
    loaded,            \* what the last load_config call returned
    host,              \* ModbusClient.host
    port,              \* ModbusClient.port
    unit_id,           \* ModbusClient.unit_id
    client,            \* ModbusClient.client: the endpoint it was built for
    alarm_objs,        \* the Alarm objects created so far, in creation order
    alarms,            \* InfoPage.alarms: references to Alarm objects
    alarm_history,     \* InfoPage.alarm_history: references to Alarm objects
    alarm_ret          \* the last call of a method of Alarm and its result

clientVars == <<connected, auto_reconnect, reconnect_delay>>
uiVars == <<page, status_label, connection_button, timer_due>>
viewVars == <<observed, shown>>
alarmVars == <<alarm_objs, alarms, alarm_history, alarm_ret>>
fileVars == <<config_file, DEFAULT_CONFIG, settings_config, loaded>>
cfgVars == <<config_file, DEFAULT_CONFIG, settings_config, loaded, host, port,
             unit_id, client>>
vars == <<connected, auto_reconnect, reconnect_delay, reachable, stack,
          page, status_label, connection_button, timer_due,
          observed, shown, config_file, DEFAULT_CONFIG, settings_config,
          loaded, host, port, unit_id, client,
          alarm_objs, alarms, alarm_history, alarm_ret>>

\* ------------------------------------------------------------------ frames
\* A step of a handler: the operation, whether the handler returns when it
\* yields None, and for a read or write the address, the display item it
\* concerns, the value written and the Python type of that value.  Values
\* are lists of integers, as the transport carries them: a boolean is 0 or
\* 1, a single value a list of one, no value the empty list.
S(op)  == [op |-> op, abort |-> FALSE, arg |-> <<>>, addr |-> -1,
           item |-> "none", val |-> <<>>, type |-> "none", text |-> ""]
SA(op) == [S(op) EXCEPT !.abort = TRUE]
R(op, addr, item) == [S(op) EXCEPT !.addr = addr, !.item = item]
WT(op, addr, type, val, item) ==
    [S(op) EXCEPT !.addr = addr, !.type = type, !.val = val, !.item = item]
\* The pages write booleans to coils and integers to registers.
W(op, addr, val, item) ==
    WT(op, addr, IF op = "write_coil" THEN "bool" ELSE "int", <<val>>, item)
Bit(b) == IF b THEN 1 ELSE 0
\* `x = read(...); if x is None: return`: the value read is kept in a local.
RL(op, addr, item) ==
    [R(op, addr, item) EXCEPT !.abort = TRUE, !.arg = <<"local">>]
\* `write_coil(addr, not x[0])`
WNot(op, addr, item) == [W(op, addr, 0, item) EXCEPT !.arg = <<"not local">>]
\* label.setText(text)
SetText(item, text) == [S("setText") EXCEPT !.item = item, !.text = text]

NoCall == [op |-> "none", c0 |-> FALSE, ensured |-> FALSE, waited |-> 0,
           ccalls |-> 0, tcalls |-> 0, closes |-> 0,
           cout |-> "none", outcome |-> "none", ret |-> "none",
           val |-> <<>>]

\* The Modbus part of the settings form as a handler other than
\* save_settings sees it: not at all.
NoForm == [host |-> "", port |-> 0, unit_id |-> 0, auto_reconnect |-> FALSE,
           reconnect_delay |-> 0]

\* `failed` is history: a write this handler has made returned False.
NewFrame(h, prog) == [h |-> h, todo |-> prog, phase |-> "ready",
                      call |-> NoCall, local |-> <<>>, form |-> NoForm,
                      failed |-> FALSE]

Top == stack[Len(stack)]
Running == stack # <<>>
SetTop(f) == stack' = [stack EXCEPT ![Len(stack)] = f]
AtStep(op) == /\ Running
              /\ Top.phase = "ready"
              /\ Top.todo # <<>>
              /\ Head(Top.todo).op = op
Advance(f) == [f EXCEPT !.todo = Tail(f.todo)]

\* ---------------------------------------------------------------- displays
MainItems == {"motor", "temp", "pressure"}
ManualItems == {"valve", "heater", "speed", "slider"}
AutoItems == {"status", "cycle", "progress", "time"}
InfoItems == {"inputs", "outputs"}
Items == MainItems \cup ManualItems \cup AutoItems \cup InfoItems

\* The widgets as the pages' constructors create them.
InitialShown ==
    [motor |-> "OFF", temp |-> "--.-", pressure |-> "--.-",
     valve |-> "Closed", heater |-> "OFF", speed |-> "0%", slider |-> 0,
     status |-> "Idle", cycle |-> "0 / 0", progress |-> "0%",
     time |-> "00:00:00",
     inputs |-> <<0, 0, 0, 0, 0, 0, 0, 0>>,
     outputs |-> <<0, 0, 0, 0, 0, 0, 0, 0>>]

\* Contents of the PLC the transport may return: unsigned 16-bit registers,
\* the speed register (also beyond the slider's range), process status
\* codes, cycle, progress and time registers, eight inputs or coils.
RawValues == {7, 250, 65535}
SpeedValues == {0, 50, 150}
StatusCodes == {0, 1, 5}
CycleValues == {<<1, 3>>}
ProgressValues == {40}
TimeValues == {<<1, 2, 3>>}
BitValues == {<<1, 0, 0, 0, 0, 0, 0, 0>>}

\* What the operator may enter: slider positions, target temperatures
\* (times ten, the field takes up to 999.9), cycle counts (up to 999).
SliderPositions == {0, 50}
TempInputs == {250, 9999}
CycleInputs == {1, 999}
RecipeIndexes == {0, 2}

\* The data a successful transport read returns for a step.  The data of an
\* item that is not observed is not recorded.
ReadData(st) ==
    IF st.arg = <<"local">> THEN {<<0>>, <<1>>}
    ELSE IF st.item \notin observed THEN {<<>>}
    ELSE CASE st.item \in {"motor", "valve", "heater"} -> {<<0>>, <<1>>}
           [] st.item \in {"temp", "pressure"} -> {<<r>> : r \in RawValues}
           [] st.item \in {"speed", "slider"} -> {<<r>> : r \in SpeedValues}
           [] st.item = "status" -> {<<r>> : r \in StatusCodes}
           [] st.item = "cycle" -> CycleValues
           [] st.item = "progress" -> {<<r>> : r \in ProgressValues}
           [] st.item = "time" -> TimeValues
           [] st.item \in {"inputs", "outputs"} -> BitValues

Pow10(n) == IF n = 0 THEN 1 ELSE IF n = 1 THEN 10 ELSE 100

\* f"{raw * scale:.Nf}" with scale = 1/den: the value raw/den rounded to N
\* decimals, as its integer part and its N decimal digits.
format(raw, den, decimals) ==
    LET n == (2 * raw * Pow10(decimals) + den) \div (2 * den)
        frac == n % Pow10(decimals)
    IN ToString(n \div Pow10(decimals)) \o "."
       \o (IF decimals = 2 /\ frac < 10 THEN "0" ELSE "") \o ToString(frac)

\* f"{n:02d}"
pad2(n) == IF n < 10 THEN "0" \o ToString(n) ELSE ToString(n)

\* Variant: the pressure scaling applied to the temperature.
MainPage_scale_swapped(item) == IF item = "temp" THEN 100 ELSE 10

\* MainPage.update_values: `temp_reg[0] * 0.1`, `pressure_reg[0] * 0.01`.
MainPage_scale(item) == IF item = "temp" THEN 10 ELSE 100

MainPage_decimals(item) == IF item = "temp" THEN 1 ELSE 2

on_off(state) == IF state # 0 THEN "ON" ELSE "OFF"

\* AutoPage.update_values: status_codes
status_text(code) ==
    CASE code = 0 -> "Idle"
      [] code = 1 -> "Running"
      [] code = 2 -> "Paused"
      [] code = 3 -> "Stopped"
      [] code = 4 -> "Error"
      [] OTHER -> "Unknown (" \o ToString(code) \o ")"

\* QSlider.setValue keeps the value inside the slider's range 0..100.
slider_bound(v) == IF v > 100 THEN 100 ELSE IF v < 0 THEN 0 ELSE v

\* The text a page puts into an item for the list v it has read.
Text(item, v) ==
    CASE v = <<>> -> ""
      [] item \in {"motor", "heater"} -> on_off(v[1])
      [] item = "valve" -> (IF v[1] # 0 THEN "Open" ELSE "Closed")
      [] item \in {"temp", "pressure"} ->
            format(v[1], MainPage_scale(item), MainPage_decimals(item))
      [] item = "slider" -> slider_bound(v[1])
      [] item = "speed" -> ToString(v[1]) \o "%"
      [] item = "status" -> status_text(v[1])
      [] item = "cycle" -> ToString(v[1]) \o " / " \o ToString(v[2])
      [] item = "progress" -> ToString(v[1]) \o "%"
      [] item = "time" -> pad2(v[1]) \o ":" \o pad2(v[2]) \o ":" \o pad2(v[3])
      [] OTHER -> v

\* The text a handler puts into its item once its write has succeeded.
WriteText(h, v) ==
    CASE h \in {"toggle_motor", "toggle_heater"} -> on_off(v[1])
      [] h = "set_valve" -> (IF v[1] # 0 THEN "Open" ELSE "Closed")
      [] h = "start_auto_process" -> "Running"
      [] h = "stop_auto_process" -> "Stopped"
      [] h = "reset_auto_process" -> "Idle"

Put(sh, item, text) ==
    IF item \in observed THEN [sh EXCEPT ![item] = text] ELSE sh

\* Variant: a read that yields None puts the item back to its initial text.
ShownAfter_blanking(f) ==
    LET st == Head(f.todo)
        v  == f.call.val
    IN CASE f.call.ret = "None" /\ st.item \in observed ->
              [shown EXCEPT ![st.item] = InitialShown[st.item]]
         [] f.call.ret = "list" /\ st.arg = <<>> ->
              Put(shown, st.item, Text(st.item, v))
         [] f.call.ret = "list" /\ st.arg = <<"slider">> ->
              Put(shown, "slider", Text("slider", v))
         [] f.call.ret = "True" /\ f.h = "reset_auto_process" ->
              Put(Put(Put(Put(shown, "status", "Idle"), "cycle", "0 / 0"),
                      "progress", "0%"), "time", "00:00:00")
         [] f.call.ret = "True" /\ st.item # "none" ->
              Put(shown, st.item, WriteText(f.h, v))
         [] OTHER -> shown

\* The displays once the handler of frame f has taken the value its call
\* returned: nothing changes on None or False.
ShownAfter(f) ==
    LET st == Head(f.todo)
        v  == f.call.val
    IN CASE f.call.ret = "list" /\ st.arg = <<>> ->
              Put(shown, st.item, Text(st.item, v))
         [] f.call.ret = "list" /\ st.arg = <<"slider">> ->
              Put(shown, "slider", Text("slider", v))
         [] f.call.ret = "True" /\ f.h = "reset_auto_process" ->
              Put(Put(Put(Put(shown, "status", "Idle"), "cycle", "0 / 0"),
                      "progress", "0%"), "time", "00:00:00")
         [] f.call.ret = "True" /\ st.item # "none" ->
              Put(shown, st.item, WriteText(f.h, v))
         [] OTHER -> shown

\* Variant: the toggle writes back the value it has read.
StepVal_same(f, st) ==
    IF st.arg = <<"not local">> THEN <<Bit(f.local[1] # 0)>> ELSE st.val

\* The value a write step passes: `not current_state[0]` or a given value.
StepVal(f, st) ==
    IF st.arg = <<"not local">> THEN <<1 - Bit(f.local[1] # 0)>> ELSE st.val

InFlightPhases == {"connecting", "transport", "closing"}
InFlight == Cardinality({i \in 1..Len(stack) : stack[i].phase \in InFlightPhases})

\* ============================================================ ModbusClient
\* The value a read or a write returns when it gives up.
FailValue(op) == IF op \in ReadOps THEN "None" ELSE "False"

\* Variant: the auto_reconnect setting is not consulted.
should_reconnect_always(c, ar) == ~c

\* ensure_connected: the condition under which it sleeps and reconnects.
should_reconnect(c, ar) == ~c /\ ar

\* Variant: the operation goes on whatever ensure_connected returned.
guard_passes_always(e) == TRUE

\* `if not self.ensure_connected(): return None`: the operation goes on to
\* the transport exactly when ensure_connected returned True.
guard_passes(e) == e

\* Variant: the flag is set unless the transport raised.
connect_result_truthy(outcome) == outcome # "raise"

\* connect: `self.connected = self.client.connect()`, an exception gives False.
connect_result(outcome) == outcome = "true"

\* Variant: the ladder without its last `except Exception` clause.
op_result_uncaught(op, outcome) ==
    CASE outcome = "ok" -> IF op \in ReadOps THEN "list" ELSE "True"
      [] outcome = "error_response" -> FailValue(op)
      [] outcome = "ConnectionException" -> FailValue(op)
      [] outcome = "ModbusException" -> FailValue(op)
      [] outcome = "Exception" -> "raised"

\* The try/except ladder of every read and write: the value returned for
\* each outcome of the transport call.
op_result(op, outcome) ==
    CASE outcome = "ok" -> IF op \in ReadOps THEN "list" ELSE "True"
      [] outcome = "error_response" -> FailValue(op)
      [] outcome = "ConnectionException" -> FailValue(op)
      [] outcome = "ModbusException" -> FailValue(op)
      [] outcome = "Exception" -> FailValue(op)

\* Variant: `except ModbusException` placed first catches ConnectionException
\* (its subclass) and the flag is never cleared.
op_connected_shadowed(outcome, c) == c

\* Variant: every Modbus exception is taken for a lost connection.
op_connected_any(outcome, c) ==
    IF outcome \in {"ConnectionException", "ModbusException"} THEN FALSE ELSE c

\* The same ladder: the connected flag after the transport call.
op_connected(outcome, c) == IF outcome = "ConnectionException" THEN FALSE ELSE c

\* What the transport can answer, given the state of the link.
TransportConnect == IF reachable THEN {"true"} ELSE {"false", "raise"}
TransportOp == IF reachable
               THEN OpOutcomes \ {"ConnectionException"}
               ELSE OpOutcomes \ {"ok"}

\* A read or a write is entered: ensure_connected either starts the
\* reconnect sleep or returns the flag as it is.
ensure_connected ==
    /\ Running
    /\ Top.phase = "ready"
    /\ Top.todo # <<>>
    /\ Head(Top.todo).op \in ClientOps
    /\ LET op == Head(Top.todo).op
           c  == [NoCall EXCEPT !.op = op, !.c0 = connected,
                                !.val = StepVal(Top, Head(Top.todo))]
       IN IF should_reconnect(connected, auto_reconnect)
          THEN SetTop([Top EXCEPT !.phase = "sleeping", !.call = c])
          ELSE SetTop([Top EXCEPT !.phase = "ensured",
                                  !.call = [c EXCEPT !.ensured = connected]])
    /\ UNCHANGED <<viewVars, alarmVars, cfgVars, clientVars, reachable, uiVars>>

\* time.sleep(self.reconnect_delay): one time unit passes.
time_sleep ==
    /\ Running
    /\ Top.phase = "sleeping"
    /\ Top.call.waited < reconnect_delay
    /\ SetTop([Top EXCEPT !.call.waited = @ + 1])
    /\ UNCHANGED <<viewVars, alarmVars, cfgVars, clientVars, reachable, uiVars>>

\* Variant: the reconnect is attempted without waiting.
sleep_over_early(w, d) == TRUE

\* time.sleep(self.reconnect_delay) has returned: the whole delay has passed.
sleep_over(w, d) == w >= d

\* connect() is entered, from a handler or from ensure_connected once the
\* sleep is over: self.client.connect() is called on the transport.
connect ==
    /\ Running
    /\ \/ /\ AtStep("connect")
          /\ SetTop([Top EXCEPT !.phase = "connecting",
                                !.call = [NoCall EXCEPT !.op = "connect",
                                                        !.c0 = connected,
                                                        !.ccalls = 1]])
       \/ /\ Top.phase = "sleeping"
          /\ sleep_over(Top.call.waited, reconnect_delay)
          /\ SetTop([Top EXCEPT !.phase = "connecting",
                                !.call.ccalls = @ + 1])
    /\ UNCHANGED <<viewVars, alarmVars, cfgVars, clientVars, reachable, uiVars>>

\* self.client.connect() returns or raises; connect() stores and returns
\* the flag.  Inside ensure_connected that value is what it returns.
connect_return ==
    /\ Running
    /\ Top.phase = "connecting"
    /\ \E outcome \in TransportConnect :
         LET r == connect_result(outcome) IN
         /\ connected' = r
         /\ IF Top.call.op = "connect"
            THEN SetTop([Top EXCEPT !.phase = "returned",
                                    !.call.cout = outcome,
                                    !.call.ret = IF r THEN "True" ELSE "False"])
            ELSE SetTop([Top EXCEPT !.phase = "ensured",
                                    !.call.cout = outcome,
                                    !.call.ensured = r])
    /\ UNCHANGED <<viewVars, alarmVars, cfgVars, auto_reconnect, reconnect_delay, reachable, uiVars>>

\* The line after ensure_connected: give up, or call the transport.
transport_call ==
    /\ Running
    /\ Top.phase = "ensured"
    /\ IF guard_passes(Top.call.ensured)
       THEN SetTop([Top EXCEPT !.phase = "transport", !.call.tcalls = @ + 1])
       ELSE SetTop([Top EXCEPT !.phase = "returned",
                               !.call.ret = FailValue(Top.call.op)])
    /\ UNCHANGED <<viewVars, alarmVars, cfgVars, clientVars, reachable, uiVars>>

\* The transport read or write returns or raises.
transport_return ==
    /\ Running
    /\ Top.phase = "transport"
    /\ \E outcome \in TransportOp :
       \E data \in (IF outcome = "ok" /\ Top.call.op \in ReadOps
                    THEN ReadData(Head(Top.todo))
                    ELSE {Top.call.val}) :
         /\ connected' = op_connected(outcome, connected)
         /\ SetTop([Top EXCEPT !.phase = "returned",
                               !.call.outcome = outcome,
                               !.call.val = data,
                               !.call.ret = op_result(Top.call.op, outcome)])
    /\ UNCHANGED <<viewVars, alarmVars, cfgVars, auto_reconnect, reconnect_delay, reachable, uiVars>>

\* disconnect() is entered: self.client.close() is called on the transport.
disconnect ==
    /\ AtStep("disconnect")
    /\ SetTop([Top EXCEPT !.phase = "closing",
                          !.call = [NoCall EXCEPT !.op = "disconnect",
                                                  !.c0 = connected,
                                                  !.closes = 1]])
    /\ UNCHANGED <<viewVars, alarmVars, cfgVars, clientVars, reachable, uiVars>>

\* close() returns; the flag is cleared.
disconnect_return ==
    /\ Running
    /\ Top.phase = "closing"
    /\ connected' = FALSE
    /\ SetTop([Top EXCEPT !.phase = "returned", !.call.ret = "void"])
    /\ UNCHANGED <<viewVars, alarmVars, cfgVars, auto_reconnect, reconnect_delay, reachable, uiVars>>

\* ManualPage.update_speed_value, the slot of speed_slider.valueChanged.
ManualPage_update_speed_value(value) ==
    <<SetText("speed", Text("speed", value)), S("guard"),
      WT("write_register", 200, "int", value, "none")>>

\* speed_slider.setValue(v) emits valueChanged when the slider's value
\* changes.
valueChanged(v) ==
    IF "slider" \in observed
    THEN IF slider_bound(v[1]) # shown.slider
         THEN {ManualPage_update_speed_value(<<slider_bound(v[1])>>)}
         ELSE {<<>>}
    ELSE {<<>>, ManualPage_update_speed_value(<<>>)}

\* The caller takes the returned value and goes on: a handler that needs
\* the value returns early on None, an exception unwinds the handler, and
\* a value put into the speed slider may call the slider's slot.
call_done ==
    /\ Running
    /\ Top.phase = "returned"
    /\ LET st == Head(Top.todo)
           stop == \/ Top.call.ret = "raised"
                   \/ st.abort /\ Top.call.ret = "None"
           rest == IF stop THEN <<>> ELSE Tail(Top.todo)
           slot == IF st.arg = <<"slider">> /\ Top.call.ret = "list"
                   THEN {e \o <<SetText("speed", Text("speed", Top.call.val))>> :
                            e \in valueChanged(Top.call.val)}
                   ELSE {<<>>}
           kept == IF st.arg = <<"local">> /\ Top.call.ret = "list"
                   THEN Top.call.val
                   ELSE Top.local
       IN \E emitted \in slot :
            SetTop([Top EXCEPT !.phase = "ready",
                               !.call = NoCall,
                               !.local = kept,
                               !.failed = @ \/ (/\ Top.call.op \in WriteOps
                                                /\ Top.call.ret = "False"),
                               !.todo = emitted \o rest])
    /\ shown' = ShownAfter(Top)
    /\ UNCHANGED <<observed, alarmVars, cfgVars, clientVars, reachable, uiVars>>

\* The handler has no step left: it returns to its caller.
handler_return ==
    /\ Running
    /\ Top.phase = "ready"
    /\ Top.todo = <<>>
    /\ stack' = SubSeq(stack, 1, Len(stack) - 1)
    /\ UNCHANGED <<viewVars, alarmVars, cfgVars, clientVars, reachable, uiVars>>

\* The server becomes reachable or unreachable.
LinkChange ==
    /\ reachable' = ~reachable
    /\ UNCHANGED <<viewVars, alarmVars, cfgVars, clientVars, stack, uiVars>>

\* Variant: the timer event is delivered whatever the thread is doing.
EventLoopReady_any == TRUE

\* ================================================================ the GUI
\* The Qt event loop delivers an event only when it is running: in
\* app.exec_() with no handler active, or inside the QMessageBox that
\* save_settings has opened.
EventLoopReady == IF stack = <<>> THEN TRUE ELSE Top.phase = "dialog"

\* Variant: clicks are delivered whatever the thread is doing.
InputReady_any == TRUE

\* Clicks on the main window are delivered only by the outer loop: the
\* message box is modal.
InputReady == stack = <<>>

\* Variant: the poll cycle returns at the first read that yields None.
MainPage_update_values_abort ==
    <<S("guard"), [R("read_coils", 0, "motor") EXCEPT !.abort = TRUE],
      [R("read_holding_registers", 100, "temp") EXCEPT !.abort = TRUE],
      R("read_holding_registers", 101, "pressure")>>

\* The steps of each page's update_values.
MainPage_update_values ==
    <<S("guard"), R("read_coils", 0, "motor"),
      R("read_holding_registers", 100, "temp"),
      R("read_holding_registers", 101, "pressure")>>
\* The last read ends in speed_slider.setValue, which emits valueChanged
\* when the value read differs from the slider's, and in speed_value.setText.
ManualPage_update_values ==
    <<S("guard"), R("read_coils", 1, "valve"), R("read_coils", 2, "heater"),
      [R("read_holding_registers", 200, "slider") EXCEPT !.arg = <<"slider">>]>>
AutoPage_update_values ==
    <<S("guard"), R("read_holding_registers", 310, "status"),
      R("read_holding_registers", 311, "cycle"),
      R("read_holding_registers", 313, "progress"),
      R("read_holding_registers", 314, "time")>>
\* InfoPage.update_values followed by check_plc_alarms, which has its own
\* guard.  The PLC status goes to the event log and the alarm registers to
\* the alarm list; neither is a display item here.
InfoPage_update_values ==
    <<S("guard"), R("read_holding_registers", 500, "none"),
      R("read_discrete_inputs", 0, "inputs"),
      R("read_coils", 0, "outputs"), S("guard"),
      R("read_holding_registers", 600, "none")>>
SettingsPage_update_values == <<>>

PageProgram(pg) ==
    CASE pg = "main" -> MainPage_update_values
      [] pg = "manual" -> ManualPage_update_values
      [] pg = "auto" -> AutoPage_update_values
      [] pg = "info" -> InfoPage_update_values
      [] pg = "settings" -> SettingsPage_update_values

Push(f) == /\ Len(stack) < MaxDepth
           /\ stack' = Append(stack, f)

\* A click on a button starts handler h.
Click(h, prog) ==
    /\ InputReady
    /\ Push(NewFrame(h, prog))
    /\ UNCHANGED <<observed, alarmVars, cfgVars, clientVars, reachable, uiVars>>

\* update_timer times out (every 1000 ms); the event waits for the loop.
TimerTimeout ==
    /\ ~timer_due
    /\ timer_due' = TRUE
    /\ UNCHANGED <<viewVars, alarmVars, cfgVars, clientVars, reachable, stack, page, status_label,
                   connection_button>>

\* MainWindow.update_values: the timer event is delivered.
update_values ==
    /\ timer_due
    /\ EventLoopReady
    /\ Push(NewFrame("update_values", <<S("status")>> \o PageProgram(page)))
    /\ timer_due' = FALSE
    /\ UNCHANGED <<viewVars, alarmVars, cfgVars, clientVars, reachable, page, status_label,
                   connection_button>>

\* MainWindow.update_connection_status
update_connection_status ==
    /\ AtStep("status")
    /\ status_label' = IF connected THEN "Connected" ELSE "Not Connected"
    /\ connection_button' = IF connected THEN "Disconnect" ELSE "Connect"
    /\ SetTop(Advance(Top))
    /\ UNCHANGED <<viewVars, alarmVars, cfgVars, clientVars, reachable, page, timer_due>>

\* `if not self.modbus_client.connected: return` at the head of a handler.
connected_guard ==
    /\ AtStep("guard")
    /\ IF connected
       THEN SetTop(Advance(Top))
       ELSE SetTop([Top EXCEPT !.todo = <<>>])
    /\ UNCHANGED <<viewVars, alarmVars, cfgVars, clientVars, reachable, uiVars>>

\* MainWindow.change_page
change_page ==
    /\ InputReady
    /\ \E pg \in Pages \ {page} : page' = pg
    /\ UNCHANGED <<viewVars, alarmVars, cfgVars, clientVars, reachable, stack, status_label,
                   connection_button, timer_due>>

\* MainWindow.toggle_connection (the button is on every page)
toggle_connection ==
    /\ InputReady
    /\ Push(NewFrame("toggle_connection",
                     <<IF connected THEN S("disconnect") ELSE S("connect"),
                       S("status")>>))
    /\ UNCHANGED <<viewVars, alarmVars, cfgVars, clientVars, reachable, uiVars>>

\* MainWindow.closeEvent: disconnect if connected, then the window closes
\* and app.exec_() returns.
closeEvent ==
    /\ InputReady
    /\ Push(NewFrame("closeEvent",
                     (IF connected THEN <<S("disconnect")>> ELSE <<>>)
                     \o <<S("exit")>>))
    /\ UNCHANGED <<viewVars, alarmVars, cfgVars, clientVars, reachable, uiVars>>

\* sys.exit(app.exec_()): the process ends, no further event is delivered.
exit ==
    /\ AtStep("exit")
    /\ SetTop([Top EXCEPT !.phase = "exited"])
    /\ UNCHANGED <<viewVars, alarmVars, cfgVars, clientVars, reachable, uiVars>>

\* label.setText(text) in a handler
setText ==
    /\ AtStep("setText")
    /\ shown' = Put(shown, Head(Top.todo).item, Head(Top.todo).text)
    /\ SetTop(Advance(Top))
    /\ UNCHANGED <<observed, alarmVars, cfgVars, clientVars, reachable, uiVars>>

toggle_motor ==
    /\ page = "main"
    /\ Click("toggle_motor",
             <<S("guard"), RL("read_coils", 0, "motor"),
               WNot("write_coil", 0, "motor")>>)
    /\ UNCHANGED shown

\* The operator moves the speed slider: valueChanged calls the slot.
update_speed_value ==
    /\ page = "manual"
    /\ \E value \in SliderPositions :
         /\ "slider" \in observed => value # shown.slider
         /\ Click("update_speed_value",
                  ManualPage_update_speed_value(<<value>>))
         /\ shown' = Put(shown, "slider", value)

\* The Open and Close buttons call set_valve(True) and set_valve(False).
set_valve ==
    /\ page = "manual"
    /\ \E open_valve \in BOOLEAN :
         Click("set_valve",
               <<S("guard"), W("write_coil", 1, Bit(open_valve), "valve")>>)
    /\ UNCHANGED shown

toggle_heater ==
    /\ page = "manual"
    /\ Click("toggle_heater",
             <<S("guard"), RL("read_coils", 2, "heater"),
               WNot("write_coil", 2, "heater")>>)
    /\ UNCHANGED shown

\* The results of the three register writes are not looked at.
start_auto_process ==
    /\ page = "auto"
    /\ \E recipe_index \in RecipeIndexes, target \in TempInputs,
          cycle_count \in CycleInputs :
         Click("start_auto_process",
               <<S("guard"), W("write_register", 300, recipe_index, "none"),
                 W("write_register", 301, target, "none"),
                 W("write_register", 302, cycle_count, "none"),
                 W("write_coil", 10, 1, "status")>>)
    /\ UNCHANGED shown

stop_auto_process ==
    /\ page = "auto"
    /\ Click("stop_auto_process",
             <<S("guard"), W("write_coil", 11, 1, "status")>>)
    /\ UNCHANGED shown

reset_auto_process ==
    /\ page = "auto"
    /\ Click("reset_auto_process",
             <<S("guard"), W("write_coil", 12, 1, "status")>>)
    /\ UNCHANGED shown

\* What the operator has put into the Modbus part of the settings form
\* when Save is clicked; the delay is in the model's time units.
SettingsForm ==
    [host : {"127.0.0.1", "10.0.0.5"}, port : {502}, unit_id : {1},
     auto_reconnect : BOOLEAN, reconnect_delay : 1..MaxDelay]

\* SettingsPage.save_settings: the form is copied into the configuration
\* and save_config is called.
save_settings ==
    /\ page = "settings"
    /\ InputReady
    /\ \E form \in SettingsForm :
         Push([NewFrame("save_settings", <<S("save_config")>>)
                 EXCEPT !.form = form])
    /\ UNCHANGED <<viewVars, alarmVars, cfgVars, clientVars, reachable, uiVars>>

\* save_config returns True (information box, then the client is updated)
\* or False (critical box).
save_config ==
    /\ AtStep("save_config")
    /\ \E ok \in BOOLEAN :
         SetTop([Top EXCEPT !.todo = IF ok THEN <<S("dialog"), S("apply")>>
                                          ELSE <<S("dialog")>>])
    /\ UNCHANGED <<viewVars, alarmVars, cfgVars, clientVars, reachable, uiVars>>

\* QMessageBox.information / QMessageBox.critical: a nested event loop runs
\* until the operator closes the box.
QMessageBox_open ==
    /\ AtStep("dialog")
    /\ SetTop([Top EXCEPT !.phase = "dialog"])
    /\ UNCHANGED <<viewVars, alarmVars, cfgVars, clientVars, reachable, uiVars>>

QMessageBox_close ==
    /\ Running
    /\ Top.phase = "dialog"
    /\ \E more \in (IF Head(Top.todo).arg = <<"question">>
                     THEN {<<>>, <<S("dialog")>>}
                     ELSE {Tail(Top.todo)}) :
         SetTop([Top EXCEPT !.phase = "ready", !.todo = more])
    /\ UNCHANGED <<viewVars, alarmVars, cfgVars, clientVars, reachable, uiVars>>

\* SettingsPage.reset_settings: a question box and, on Yes, the form is
\* reset and an information box shown; the client is not touched.
reset_settings ==
    /\ page = "settings"
    /\ Click("reset_settings",
             <<[S("dialog") EXCEPT !.arg = <<"question">>]>>)
    /\ UNCHANGED shown

\* save_settings after the box: when host, port or unit ID differ from the
\* client's, disconnect if connected, copy the settings, connect.
apply_settings ==
    /\ AtStep("apply")
    /\ SetTop([Top EXCEPT !.todo =
          IF \/ host # Top.form.host
             \/ port # Top.form.port
             \/ unit_id # Top.form.unit_id
          THEN (IF connected THEN <<S("disconnect")>> ELSE <<>>)
               \o <<S("set"), S("connect")>>
          ELSE <<>>])
    /\ UNCHANGED <<viewVars, alarmVars, cfgVars, clientVars, reachable, uiVars>>

\* The five assignments to the client's fields; self.client, the transport
\* object built by the constructor, is not among them.
set_client_fields ==
    /\ AtStep("set")
    /\ host' = Top.form.host
    /\ port' = Top.form.port
    /\ unit_id' = Top.form.unit_id
    /\ auto_reconnect' = Top.form.auto_reconnect
    /\ reconnect_delay' = Top.form.reconnect_delay
    /\ SetTop(Advance(Top))
    /\ UNCHANGED <<viewVars, alarmVars, fileVars, client, connected, reachable, uiVars>>

\* =========================================================== configuration
\* settings.DEFAULT_CONFIG["modbus"] as the module defines it.
Documented == [host |-> "127.0.0.1", port |-> 502, unit_id |-> 1,
               auto_reconnect |-> TRUE, reconnect_delay |-> 5]

\* What the operator may put into the Modbus part of the settings form.
FormValues ==
    [host : {"127.0.0.1", "10.0.0.5"}, port : {502}, unit_id : {1},
     auto_reconnect : BOOLEAN, reconnect_delay : {5, 10}]

\* config/config.json: absent, not parseable, valid, or valid JSON without
\* a "modbus" section.
FileStates ==
    {[state |-> st, modbus |-> Documented] :
        st \in {"absent", "corrupt", "no_modbus"}}
    \cup {[state |-> "valid", modbus |-> m] : m \in FormValues}

\* save_config(config): the file is written, or open() fails and the file
\* is as it was, or the write fails half-way.
save_config_file(m) ==
    {[state |-> "valid", modbus |-> m], config_file,
     [state |-> "corrupt", modbus |-> Documented]}

\* load_config: the object returned is DEFAULT_CONFIG itself when the file
\* is absent or json.load fails, else the dictionary parsed from the file.
load_config_obj ==
    IF config_file.state \in {"absent", "corrupt"} THEN "DEFAULT" ELSE "file"
load_config_modbus ==
    IF config_file.state \in {"absent", "corrupt"}
    THEN DEFAULT_CONFIG
    ELSE config_file.modbus
\* An absent file is created from DEFAULT_CONFIG.
load_config_file ==
    IF config_file.state = "absent"
    THEN save_config_file(DEFAULT_CONFIG)
    ELSE {config_file}

load_config_call ==
    /\ loaded' = [obj |-> load_config_obj, file |-> config_file.state,
                  modbus |-> load_config_modbus]
    /\ config_file' \in load_config_file

\* main(): config = load_config(); ModbusClient(host=config.get('modbus',
\* {}).get('host', '192.168.3.250'), ...) with the fallbacks of main.
main_config ==
    /\ loaded.obj = "none"
    /\ load_config_call
    /\ LET has == config_file.state # "no_modbus"
           m == load_config_modbus
       IN /\ host' = IF has THEN m.host ELSE "192.168.3.250"
          /\ port' = IF has THEN m.port ELSE 502
          /\ unit_id' = IF has THEN m.unit_id ELSE 1
          /\ client' = [host |-> host', port |-> port']
          /\ auto_reconnect' = IF has THEN m.auto_reconnect ELSE TRUE
          /\ reconnect_delay' = IF has THEN m.reconnect_delay ELSE 5
    /\ UNCHANGED <<connected, reachable, stack, uiVars, viewVars, alarmVars,
                   DEFAULT_CONFIG, settings_config>>

\* SettingsPage.__init__: self.config = load_config()
SettingsPage_init ==
    /\ loaded.obj # "none"
    /\ settings_config.obj = "none"
    /\ load_config_call
    /\ settings_config' =
          [obj |-> IF load_config_obj = "DEFAULT" THEN "DEFAULT" ELSE "own",
           modbus |-> load_config_modbus]
    /\ UNCHANGED <<clientVars, reachable, stack, uiVars, viewVars, alarmVars,
                   DEFAULT_CONFIG, host, port, unit_id, client>>

\* load_config called once more, at any later point.
load_config ==
    /\ settings_config.obj # "none"
    /\ load_config_call
    /\ UNCHANGED <<clientVars, reachable, stack, uiVars, viewVars, alarmVars,
                   DEFAULT_CONFIG, settings_config, host, port, unit_id,
                   client>>

\* SettingsPage.save_settings seen from the configuration: the form is
\* written into self.config, in place; the dictionary is saved; when that
\* worked and host, port or unit ID differ from the client's, the client
\* takes the form's values and reconnects.
save_settings_config ==
    /\ settings_config.obj # "none"
    /\ \E form \in FormValues :
         /\ settings_config' = [settings_config EXCEPT !.modbus = form]
         /\ DEFAULT_CONFIG' = IF settings_config.obj = "DEFAULT"
                              THEN form
                              ELSE DEFAULT_CONFIG
         /\ config_file' \in save_config_file(form)
         /\ IF /\ config_file' = [state |-> "valid", modbus |-> form]
               /\ \/ host # form.host
                  \/ port # form.port
                  \/ unit_id # form.unit_id
            THEN /\ host' = form.host
                 /\ port' = form.port
                 /\ unit_id' = form.unit_id
                 /\ auto_reconnect' = form.auto_reconnect
                 /\ reconnect_delay' = form.reconnect_delay
                 /\ connected' \in BOOLEAN
            ELSE UNCHANGED <<clientVars, host, port, unit_id>>
    /\ UNCHANGED <<reachable, stack, uiVars, viewVars, alarmVars, loaded, client>>

\* The file is deleted, damaged or rewritten from outside the application.
FileChange ==
    /\ config_file' \in FileStates \ {config_file}
    /\ UNCHANGED <<clientVars, reachable, stack, uiVars, viewVars, alarmVars,
                   DEFAULT_CONFIG, settings_config, loaded, host, port,
                   unit_id, client>>

\* settings.DEFAULT_CONFIG["tags"]; a scaling of 0.1 is 1/10.
DEFAULT_TAGS ==
    [temperature |-> [address |-> 100, type |-> "holding_register",
                      scaling_den |-> 10],
     pressure |-> [address |-> 101, type |-> "holding_register",
                   scaling_den |-> 100],
     motor_running |-> [address |-> 0, type |-> "coil", scaling_den |-> 1]]

\* ================================================================== alarms
\* Alarm.ACTIVE, Alarm.ACKNOWLEDGED, Alarm.CLEARED
ACTIVE == 1
ACKNOWLEDGED == 2
CLEARED == 3

\* add_alarm keeps the most recent 100 alarms in the history.
HistoryLimit == 100

\* Alarm.__init__
Alarm(alarm_id) == [alarm_id |-> alarm_id, status |-> ACTIVE]

is_active(a) == a.status = ACTIVE
is_acknowledged(a) == a.status = ACKNOWLEDGED
is_cleared(a) == a.status = CLEARED

\* Variant: acknowledge() takes an alarm of any status.
Alarm_acknowledge_any(a) == [a EXCEPT !.status = ACKNOWLEDGED]

\* Alarm.acknowledge(): the alarm afterwards, and the value returned.
Alarm_acknowledge(a) ==
    IF a.status = ACTIVE THEN [a EXCEPT !.status = ACKNOWLEDGED] ELSE a
Alarm_acknowledge_ret(a) == a.status = ACTIVE

\* Alarm.clear(): the alarm afterwards, and the value returned.
Alarm_clear(a) ==
    IF a.status \in {ACKNOWLEDGED, ACTIVE}
    THEN [a EXCEPT !.status = CLEARED]
    ELSE a
Alarm_clear_ret(a) == a.status \in {ACKNOWLEDGED, ACTIVE}

\* The alarm lists of the InfoPage as one value: the objects, and the two
\* lists of references to them.
InfoPage_alarms ==
    [objs |-> alarm_objs, alarms |-> alarms, history |-> alarm_history]

\* Variant: the history keeps its first 100 entries.
history_trim_oldest(h) ==
    IF Len(h) > HistoryLimit THEN SubSeq(h, 1, HistoryLimit) ELSE h

\* `if len(h) > 100: h = h[-100:]`
history_trim(h) ==
    IF Len(h) > HistoryLimit
    THEN SubSeq(h, Len(h) - HistoryLimit + 1, Len(h))
    ELSE h

\* InfoPage.add_alarm: one new Alarm object, appended to both lists.
add_alarm(st, alarm_id) ==
    LET ref == Len(st.objs) + 1
    IN [objs |-> Append(st.objs, Alarm(alarm_id)),
        alarms |-> Append(st.alarms, ref),
        history |-> history_trim(Append(st.history, ref))]

\* _generate_sample_alarms, called by the constructor of the page.
SampleAlarms == <<"ALM001", "ALM002", "ALM003", "ALM004", "ALM005">>
RECURSIVE add_all(_, _)
add_all(st, ids) ==
    IF ids = <<>> THEN st ELSE add_all(add_alarm(st, Head(ids)), Tail(ids))
InfoPage_init ==
    add_all([objs |-> <<>>, alarms |-> <<>>, history |-> <<>>], SampleAlarms)

\* f"ALM{600+i:03d}"
plc_alarm_id(i) == "ALM" \o ToString(600 + i)

\* any(a.alarm_id == alarm_id and a.is_active() for a in self.alarms)
already_listed(st, alarm_id) ==
    \E k \in 1..Len(st.alarms) :
        /\ st.objs[st.alarms[k]].alarm_id = alarm_id
        /\ is_active(st.objs[st.alarms[k]])

\* The loop of check_plc_alarms over the registers read, from index i on.
RECURSIVE check_plc_alarms_from(_, _, _)
check_plc_alarms_from(st, alarm_regs, i) ==
    IF i >= Len(alarm_regs)
    THEN st
    ELSE check_plc_alarms_from(
            IF alarm_regs[i + 1] > 0 /\ ~already_listed(st, plc_alarm_id(i))
            THEN add_alarm(st, plc_alarm_id(i))
            ELSE st,
            alarm_regs, i + 1)

Listed(st) == {st.alarms[k] : k \in 1..Len(st.alarms)}

\* InfoPage.acknowledge_alarms: every active alarm of the list.
acknowledged(st) ==
    [st EXCEPT !.objs = [r \in DOMAIN st.objs |->
                            IF r \in Listed(st) /\ is_active(st.objs[r])
                            THEN Alarm_acknowledge(st.objs[r])
                            ELSE st.objs[r]]]

\* Variant: reset_alarms keeps every alarm that is not cleared.
reset_keeps_uncleared(a) == ~is_cleared(a)

\* reset_alarms keeps the alarms for which is_active() holds.
reset_keeps(a) == is_active(a)

\* InfoPage.reset_alarms: the others are cleared and leave the list.
reset(st) ==
    [st EXCEPT !.objs = [r \in DOMAIN st.objs |->
                            IF r \in Listed(st) /\ ~reset_keeps(st.objs[r])
                            THEN Alarm_clear(st.objs[r])
                            ELSE st.objs[r]],
               !.alarms = SelectSeq(st.alarms,
                                    LAMBDA r : reset_keeps(st.objs[r]))]

\* What read_holding_registers(600, 8) may return to check_plc_alarms: the
\* first two alarm conditions come and go, the others stay off.
AlarmRegs == {<<a, b, 0, 0, 0, 0, 0, 0>> : a \in {0, 1}, b \in {0, 3}}

NoAlarmCall == [op |-> "none", ref |-> 0, ret |-> FALSE]

SetAlarms(st) ==
    /\ alarm_objs' = st.objs
    /\ alarms' = st.alarms
    /\ alarm_history' = st.history

othersVars == <<viewVars, cfgVars, clientVars, reachable, stack, uiVars>>

\* check_plc_alarms in a poll cycle of the Info page whose read of the
\* alarm registers succeeded.
check_plc_alarms ==
    \E alarm_regs \in AlarmRegs :
        LET st == check_plc_alarms_from(InfoPage_alarms, alarm_regs, 0)
        IN /\ Len(st.objs) <= MaxAlarmObjs
           /\ SetAlarms(st)
           /\ UNCHANGED <<othersVars, alarm_ret>>

\* The Acknowledge button.
acknowledge_alarms ==
    /\ SetAlarms(acknowledged(InfoPage_alarms))
    /\ UNCHANGED <<othersVars, alarm_ret>>

\* The Reset button.
reset_alarms ==
    /\ SetAlarms(reset(InfoPage_alarms))
    /\ UNCHANGED <<othersVars, alarm_ret>>

\* add_alarm returns the Alarm it has created: the objects a caller of the
\* page may hold and call methods on.  The caller keeps the last one.
held == {Len(alarm_objs)}

\* alarm.acknowledge() called on an Alarm object.
acknowledge ==
    \E ref \in held :
        /\ alarm_objs' = [alarm_objs EXCEPT ![ref] = Alarm_acknowledge(@)]
        /\ alarm_ret' = [op |-> "acknowledge", ref |-> ref,
                         ret |-> Alarm_acknowledge_ret(alarm_objs[ref])]
        /\ UNCHANGED <<othersVars, alarms, alarm_history>>

\* alarm.clear() called on an Alarm object.
clear ==
    \E ref \in held :
        /\ alarm_objs' = [alarm_objs EXCEPT ![ref] = Alarm_clear(@)]
        /\ alarm_ret' = [op |-> "clear", ref |-> ref,
                         ret |-> Alarm_clear_ret(alarm_objs[ref])]
        /\ UNCHANGED <<othersVars, alarms, alarm_history>>

\* add_alarm called with any of the identifiers the page uses.
add_alarm_call ==
    /\ Len(alarms) < MaxListed
    /\ Len(alarm_objs) < HistoryLimit + MaxOverflow
    /\ \E alarm_id \in {plc_alarm_id(0)} :
         SetAlarms(add_alarm(InfoPage_alarms, alarm_id))
    /\ UNCHANGED <<othersVars, alarm_ret>>

\* ========================================================== specifications
ClientSteps ==
    \/ ensure_connected
    \/ time_sleep
    \/ connect
    \/ connect_return
    \/ transport_call
    \/ transport_return
    \/ disconnect
    \/ disconnect_return
    \/ call_done
    \/ handler_return
    \/ LinkChange

\* main(): ModbusClient(...) connects in its constructor, MainWindow(...)
\* ends with update_connection_status, then app.exec_() runs the loop.
Init ==
    /\ connected = FALSE
    /\ auto_reconnect \in BOOLEAN
    /\ reconnect_delay \in 1..MaxDelay
    /\ reachable \in BOOLEAN
    /\ stack = <<NewFrame("main", <<S("connect"), S("status")>>)>>
    /\ page = "main"
    /\ status_label = "Not Connected"
    /\ connection_button = "Connect"
    /\ timer_due = FALSE
    /\ observed = {}
    /\ shown = InitialShown
    /\ config_file = [state |-> "valid", modbus |-> Documented]
    /\ DEFAULT_CONFIG = Documented
    /\ settings_config = [obj |-> "own", modbus |-> Documented]
    /\ loaded = [obj |-> "file", file |-> "valid", modbus |-> Documented]
    /\ host = Documented.host
    /\ port = Documented.port
    /\ unit_id = Documented.unit_id
    /\ client = [host |-> Documented.host, port |-> Documented.port]
    /\ alarm_objs = InfoPage_init.objs
    /\ alarms = InfoPage_init.alarms
    /\ alarm_history = InfoPage_init.history
    /\ alarm_ret = NoAlarmCall

Next ==
    \/ ClientSteps
    \/ TimerTimeout
    \/ update_values
    \/ update_connection_status
    \/ connected_guard
    \/ setText
    \/ change_page
    \/ toggle_connection
    \/ closeEvent
    \/ exit
    \/ toggle_motor
    \/ update_speed_value
    \/ set_valve
    \/ toggle_heater
    \/ start_auto_process
    \/ stop_auto_process
    \/ reset_auto_process
    \/ save_settings
    \/ reset_settings
    \/ save_config
    \/ QMessageBox_open
    \/ QMessageBox_close
    \/ apply_settings
    \/ set_client_fields

Spec == Init /\ [][Next]_vars

\* The application with the displays of one page observed.
InitShow ==
    /\ connected = FALSE
    /\ auto_reconnect \in BOOLEAN
    /\ reconnect_delay \in 1..MaxDelay
    /\ reachable \in BOOLEAN
    /\ stack = <<NewFrame("main", <<S("connect"), S("status")>>)>>
    /\ page = "main"
    /\ status_label = "Not Connected"
    /\ connection_button = "Connect"
    /\ timer_due = FALSE
    /\ observed \in {MainItems, ManualItems, AutoItems, InfoItems}
    /\ shown = InitialShown
    /\ config_file = [state |-> "valid", modbus |-> Documented]
    /\ DEFAULT_CONFIG = Documented
    /\ settings_config = [obj |-> "own", modbus |-> Documented]
    /\ loaded = [obj |-> "file", file |-> "valid", modbus |-> Documented]
    /\ host = Documented.host
    /\ port = Documented.port
    /\ unit_id = Documented.unit_id
    /\ client = [host |-> Documented.host, port |-> Documented.port]
    /\ alarm_objs = InfoPage_init.objs
    /\ alarms = InfoPage_init.alarms
    /\ alarm_history = InfoPage_init.history
    /\ alarm_ret = NoAlarmCall

\* While the displays are observed the operator leaves the Save button of
\* the Settings page alone: the endpoint and the reconnect settings stay
\* those of the start.
NextShow ==
    \/ ClientSteps
    \/ TimerTimeout
    \/ update_values
    \/ update_connection_status
    \/ connected_guard
    \/ setText
    \/ change_page
    \/ toggle_connection
    \/ closeEvent
    \/ exit
    \/ toggle_motor
    \/ update_speed_value
    \/ set_valve
    \/ toggle_heater
    \/ start_auto_process
    \/ stop_auto_process
    \/ reset_auto_process
    \/ reset_settings
    \/ QMessageBox_open
    \/ QMessageBox_close

SpecShow == InitShow /\ [][NextShow]_vars

\* The configuration through the life of the process: main() loads it and
\* builds the client, the Settings page loads it again, then the operator
\* saves settings and the file changes, in any order.
InitConfig ==
    /\ connected = FALSE
    /\ auto_reconnect = TRUE
    /\ reconnect_delay = 5
    /\ reachable \in BOOLEAN
    /\ stack = <<>>
    /\ page = "main"
    /\ status_label = "Not Connected"
    /\ connection_button = "Connect"
    /\ timer_due = FALSE
    /\ observed = {}
    /\ shown = InitialShown
    /\ config_file \in FileStates
    /\ DEFAULT_CONFIG = Documented
    /\ settings_config = [obj |-> "none", modbus |-> Documented]
    /\ loaded = [obj |-> "none", file |-> "absent", modbus |-> Documented]
    /\ host = "none"
    /\ port = 0
    /\ unit_id = 0
    /\ client = [host |-> "none", port |-> 0]
    /\ alarm_objs = InfoPage_init.objs
    /\ alarms = InfoPage_init.alarms
    /\ alarm_history = InfoPage_init.history
    /\ alarm_ret = NoAlarmCall

NextConfig ==
    \/ main_config
    \/ SettingsPage_init
    \/ load_config
    \/ save_settings_config
    \/ FileChange

SpecConfig == InitConfig /\ [][NextConfig]_vars

\* The alarms of the Info page: polls whose read of the alarm registers
\* succeeded, the two buttons, and the methods of Alarm called on the
\* object that was created last.
NextAlarm ==
    \/ check_plc_alarms
    \/ acknowledge_alarms
    \/ reset_alarms
    \/ acknowledge
    \/ clear

SpecAlarm == Init /\ [][NextAlarm]_vars

\* The alarm history: add_alarm called any number of times, and the two
\* buttons.
NextHistory ==
    \/ add_alarm_call
    \/ acknowledge_alarms
    \/ reset_alarms

SpecHistory == Init /\ [][NextHistory]_vars

\* The ModbusClient alone, driven by a sequential caller that may call any
\* public method in any state.
InitClient ==
    /\ connected = FALSE
    /\ auto_reconnect \in BOOLEAN
    /\ reconnect_delay \in 1..MaxDelay
    /\ reachable \in BOOLEAN
    /\ stack = <<NewFrame("__init__", <<S("connect")>>)>>
    /\ page = "main"
    /\ status_label = "Not Connected"
    /\ connection_button = "Connect"
    /\ timer_due = FALSE
    /\ observed = {}
    /\ shown = InitialShown
    /\ config_file = [state |-> "valid", modbus |-> Documented]
    /\ DEFAULT_CONFIG = Documented
    /\ settings_config = [obj |-> "own", modbus |-> Documented]
    /\ loaded = [obj |-> "file", file |-> "valid", modbus |-> Documented]
    /\ host = Documented.host
    /\ port = Documented.port
    /\ unit_id = Documented.unit_id
    /\ client = [host |-> Documented.host, port |-> Documented.port]
    /\ alarm_objs = InfoPage_init.objs
    /\ alarms = InfoPage_init.alarms
    /\ alarm_history = InfoPage_init.history
    /\ alarm_ret = NoAlarmCall

\* The values a caller may pass to a write, with their Python type: also a
\* non-boolean for a coil and integers that do not fit 16 bits.
ApiValues(op) ==
    CASE op = "write_coil" -> {<<"bool", <<1>>>>, <<"int", <<2>>>>}
      [] op = "write_register" ->
            {<<"int", <<65535>>>>, <<"int", <<65536>>>>, <<"int", <<-1>>>>}
      [] op = "write_registers" ->
            {<<"list", <<0, 65535>>>>, <<"list", <<65536>>>>}
      [] OTHER -> {<<"none", <<>>>>}

api_call ==
    /\ stack = <<>>
    /\ \E op \in ClientOps \cup {"connect", "disconnect"} :
       \E tv \in ApiValues(op) :
         stack' = <<NewFrame("caller", <<WT(op, 0, tv[1], tv[2], "none")>>)>>
    /\ UNCHANGED <<viewVars, alarmVars, cfgVars, clientVars, reachable, uiVars>>

NextClient ==
    \/ ClientSteps
    \/ api_call

SpecClient == InitClient /\ [][NextClient]_vars

\* The steps the GUI thread takes by itself once a handler has started:
\* Python runs the handler on, the transport call returns or times out.
ProgramSteps ==
    \/ ensure_connected
    \/ time_sleep
    \/ connect
    \/ connect_return
    \/ transport_call
    \/ transport_return
    \/ disconnect
    \/ disconnect_return
    \/ call_done
    \/ handler_return
    \/ update_connection_status
    \/ connected_guard
    \/ setText
    \/ exit
    \/ save_config
    \/ QMessageBox_open
    \/ apply_settings
    \/ set_client_fields

\* The running application: a started handler runs on, update_timer keeps
\* timing out, and the event loop serves the pending timer event when it
\* gets control, however often handlers run in between (strong fairness).
\* The operator (clicks, closing a message box) and the link owe nothing.
SpecLive ==
    /\ Init
    /\ [][Next]_vars
    /\ WF_vars(ProgramSteps)
    /\ WF_vars(TimerTimeout)
    /\ SF_vars(update_values)

TypeOK ==
    /\ connected \in BOOLEAN
    /\ auto_reconnect \in BOOLEAN
    /\ reconnect_delay \in 1..MaxDelay
    /\ Len(stack) <= MaxDepth

\* ================================================================== claims
Frames == 1..Len(stack)
Returned(i) == stack[i].phase = "returned"

\* C1: a transport read or write is in flight only while the connected flag
\* is True; a read or write whose ensure_connected returned False returns
\* None (read) or False (write) and has made no read/write transport call.
C1_OnlyWhenConnected ==
    \A i \in Frames :
        LET c == stack[i].call IN
        /\ stack[i].phase = "transport" => connected
        /\ stack[i].phase = "ensured" => (c.ensured <=> connected)
        /\ (Returned(i) /\ c.op \in ClientOps /\ ~c.ensured)
              => c.ret = FailValue(c.op) /\ c.tcalls = 0
        /\ (c.op \in ClientOps /\ c.tcalls > 0) => c.ensured

\* A read or write has returned after its reconnect attempt failed.
C1_Witness ==
    /\ Running
    /\ Top.phase = "returned"
    /\ Top.call.op \in ClientOps
    /\ ~Top.call.ensured
    /\ Top.call.ccalls = 1

\* C2: whatever the transport does, connect returns True or False, a read
\* returns a list or None, a write returns True or False; nothing is raised.
C2_NoEscape ==
    \A i \in Frames :
        LET c == stack[i].call IN
        Returned(i) =>
            /\ c.ret # "raised"
            /\ c.op = "connect" => c.ret \in {"True", "False"}
            /\ c.op \in ReadOps => c.ret \in {"list", "None"}
            /\ c.op \in WriteOps => c.ret \in {"True", "False"}

\* A read has returned None after the transport raised an exception that is
\* neither a ConnectionException nor a ModbusException.
C2_Witness ==
    /\ Running
    /\ Top.phase = "returned"
    /\ Top.call.op \in ReadOps
    /\ Top.call.outcome = "Exception"
    /\ Top.call.ret = "None"

\* C3: when the transport raises ConnectionException during a read or write,
\* the call returns None/False with connected False, and no call invokes the
\* transport read/write more than once.
C3_ConnectionLost ==
    \A i \in Frames :
        LET c == stack[i].call IN
        /\ c.tcalls <= 1
        /\ (Returned(i) /\ c.outcome = "ConnectionException")
              => /\ c.ret = FailValue(c.op)
                 /\ ~connected
                 /\ c.tcalls = 1

\* A write has returned after the connection was lost during it.
C3_Witness ==
    /\ Running
    /\ Top.phase = "returned"
    /\ Top.call.op \in WriteOps
    /\ Top.call.outcome = "ConnectionException"

\* C4: a read or write that ends with an error response or a ModbusException
\* returns None/False and leaves the connected flag as it was; the flag
\* changes only when connect or disconnect returns or when a read/write
\* catches ConnectionException.
C4_FlagFrame ==
    [][ /\ ( /\ Running
             /\ Top.phase = "transport"
             /\ Running'
             /\ Top'.phase = "returned"
             /\ Top'.call.outcome \in {"error_response", "ModbusException"} )
          => /\ connected' = connected
             /\ Top'.call.ret = FailValue(Top'.call.op)
        /\ (connected' # connected)
          => /\ Running
             /\ \/ Top.phase \in {"connecting", "closing"}
                \/ /\ Top.phase = "transport"
                   /\ Running'
                   /\ Top'.call.outcome = "ConnectionException"
      ]_vars

\* A read or write has failed on an error response or ModbusException and
\* the client is still connected.
C4_Witness ==
    /\ Running
    /\ Top.phase = "returned"
    /\ Top.call.op \in ClientOps
    /\ Top.call.outcome \in {"error_response", "ModbusException"}
    /\ Top.call.ret = FailValue(Top.call.op)
    /\ connected

C6_Idempotent ==
    \A i \in Frames :
        LET c == stack[i].call IN
        /\ (c.op = "connect" /\ c.c0) => c.ccalls = 0 /\ connected
        /\ (c.op = "disconnect" /\ ~c.c0) => c.closes = 0 /\ ~connected
        /\ (stack[i].h = "toggle_connection" /\ c.op # "none")
              => /\ (connection_button = "Connect" /\ c.c0)
                      => c.ccalls = 0 /\ c.closes = 0 /\ connected
                 /\ (connection_button = "Disconnect" /\ ~c.c0)
                      => c.ccalls = 0 /\ c.closes = 0 /\ ~connected

\* The connection state the client reports: the flag is its only record.
ConnectionState == IF connected THEN "Connected" ELSE "Disconnected"

C8_OneInFlight == InFlight <= 1

\* A user write is in flight and the timer has timed out meanwhile: the
\* poll cycle waits for the handler to return.
C8_Witness ==
    /\ timer_due
    /\ Running
    /\ Top.h = "set_valve"
    /\ Top.phase = "transport"
    /\ InFlight = 1

PollCycles == Cardinality({i \in Frames : stack[i].h = "update_values"})

\* C9: at most one poll cycle (MainWindow.update_values) is outstanding.
C9_OnePollCycle == PollCycles <= 1

\* The timer has timed out again while a poll cycle is still waiting out
\* the reconnect delay.
C9_Witness ==
    /\ timer_due
    /\ Running
    /\ Top.h = "update_values"
    /\ Top.phase = "sleeping"
    /\ Top.call.waited >= 1

\* C10: no read or write call makes its caller wait for the reconnect delay.
C10_NoReconnectWait ==
    \A i \in Frames :
        stack[i].call.op \in ClientOps
            => stack[i].phase # "sleeping" /\ stack[i].call.waited = 0

Exited == \E i \in Frames : stack[i].phase = "exited"

\* A connect attempt has just failed while auto_reconnect is on.
ConnectFailed ==
    /\ Running
    /\ Top.phase \in {"returned", "ensured"}
    /\ Top.call.cout \in {"false", "raise"}
    /\ auto_reconnect

ConnectAttempt == \E i \in Frames : stack[i].phase = "connecting"

\* C11: with auto_reconnect on and the host unreachable, a further connect
\* attempt always eventually follows a failed one (unless the host has
\* become reachable, auto_reconnect was switched off or the application
\* was closed).
C11_KeepsRetrying ==
    ConnectFailed ~> (ConnectAttempt \/ reachable \/ ~auto_reconnect \/ Exited)

\* A read has just lost the connection while auto_reconnect is on.
LostByRead ==
    /\ Running
    /\ Top.phase = "returned"
    /\ Top.call.op \in ReadOps
    /\ Top.call.outcome = "ConnectionException"
    /\ auto_reconnect

\* ensure_connected is waiting out the delay or reconnecting.
Reconnecting ==
    \E i \in Frames : /\ stack[i].call.op \in ClientOps
                      /\ stack[i].phase \in {"sleeping", "connecting"}

\* C12: after a read has lost the connection with auto_reconnect on, a
\* reconnection attempt eventually follows (unless the operator has
\* pressed Connect, auto_reconnect was switched off or the application
\* was closed).
C12_ReconnectsAfterLoss ==
    LostByRead ~> (Reconnecting \/ ConnectAttempt \/ ~auto_reconnect \/ Exited)

\* C13: a connect attempt made by ensure_connected comes after a wait of
\* the whole reconnect_delay, and one read or write call makes at most one
\* connect attempt.
C13_WaitThenOneAttempt ==
    \A i \in Frames :
        LET c == stack[i].call IN
        c.op \in ClientOps
            => /\ c.ccalls <= 1
               /\ c.waited <= reconnect_delay
               /\ (stack[i].phase = "connecting" \/ c.ccalls = 1)
                     => c.waited = reconnect_delay

\* ensure_connected is reconnecting after a delay of more than one time unit.
C13_Witness ==
    /\ Running
    /\ Top.phase = "connecting"
    /\ Top.call.op \in ClientOps
    /\ Top.call.ccalls = 1
    /\ Top.call.waited = reconnect_delay
    /\ reconnect_delay > 1

\* C14: while auto_reconnect is off, a read or write neither waits nor
\* makes a connect attempt and its ensure_connected returns the flag as it
\* found it; the flag goes from False to True only when a connect() called
\* by the constructor, the connection button or save_settings returns.
C14_NoAutoConnect ==
    /\ [](\A i \in Frames :
            LET c == stack[i].call IN
            (c.op \in ClientOps /\ ~auto_reconnect)
                => /\ c.ccalls = 0
                   /\ c.waited = 0
                   /\ stack[i].phase \notin {"sleeping", "connecting"}
                   /\ stack[i].phase = "ensured"
                         => c.ensured = c.c0 /\ connected = c.c0)
    /\ [][(~auto_reconnect /\ ~connected /\ connected')
            => /\ Running
               /\ Top.phase = "connecting"
               /\ Top.call.op = "connect"
               /\ Top.h \in {"main", "toggle_connection", "save_settings"}]_vars

\* With auto_reconnect off, a read entered while disconnected has returned
\* None without a connect attempt.
C14_Witness ==
    /\ Running
    /\ Top.phase = "returned"
    /\ Top.call.op \in ReadOps
    /\ ~auto_reconnect
    /\ ~Top.call.c0
    /\ Top.call.ccalls = 0
    /\ Top.call.ret = "None"

\* The display texts: every observed item but the slider, which is an
\* input widget.
Displays == observed \ {"slider"}

\* The call that has returned in the top frame succeeded and concerns item.
SucceededFor(item) ==
    /\ Running
    /\ Top.phase = "returned"
    /\ Top.call.ret \in {"list", "True"}
    /\ \/ Head(Top.todo).item = item
       \/ Top.h = "reset_auto_process" /\ item \in AutoItems

\* The poll cycle is at the setText that follows a successful read.
PollSetText(item) ==
    /\ AtStep("setText")
    /\ Top.h = "update_values"
    /\ Head(Top.todo).item = item

EndsWith(t, r) ==
    /\ Len(t) >= Len(r)
    /\ SubSeq(t, Len(t) - Len(r) + 1, Len(t)) = r

Decimal(r, den) ==
    ToString(r \div den) \o "."
    \o (IF den = 100 /\ r % den < 10 THEN "0" ELSE "") \o ToString(r % den)

\* C19: a raw value r read from holding register 100 is displayed as r * 0.1
\* with one decimal and one read from register 101 as r * 0.01 with two
\* decimals; addresses, register type and scales are those of the tags
\* temperature and pressure of the default configuration.
C19_ScaledDisplay ==
    [][\A item \in {"temp", "pressure"} :
         LET tag == IF item = "temp" THEN DEFAULT_TAGS.temperature
                                     ELSE DEFAULT_TAGS.pressure
         IN ( /\ item \in observed
              /\ Running
              /\ Top.h = "update_values"
              /\ Top.phase = "returned"
              /\ Head(Top.todo).item = item
              /\ stack' # stack )
            => /\ Head(Top.todo).addr = tag.address
               /\ Head(Top.todo).op = "read_holding_registers"
               /\ tag.type = "holding_register"
               /\ Top.call.ret = "list"
                    => shown'[item] = Decimal(Top.call.val[1], tag.scaling_den)
               /\ Top.call.ret # "list" => shown'[item] = shown[item]]_vars

\* Register 100 held 250 and register 101 held 7 when they were last read.
C19_Witness ==
    /\ shown.temp = "25.0"
    /\ shown.pressure = "0.07"

\* The values the Modbus data model admits: a boolean for a coil, an
\* unsigned 16-bit integer for a register.
ValidValue(op, type, val) ==
    CASE op = "write_coil" -> type = "bool"
      [] op = "write_register" -> type = "int" /\ val[1] \in 0..65535
      [] op = "write_registers" ->
            type = "list" /\ \A k \in 1..Len(val) : val[k] \in 0..65535
      [] OTHER -> TRUE

\* C17: a write whose value is not valid for its target makes no transport
\* call and returns False.
C17_RejectsInvalid ==
    \A i \in Frames :
        LET c == stack[i].call IN
        (c.op \in WriteOps
           /\ ~ValidValue(c.op, Head(stack[i].todo).type, c.val))
            => /\ c.tcalls = 0
               /\ stack[i].phase # "transport"
               /\ Returned(i) => c.ret = "False"

\* C20: while no handler is running, the status label and the connection
\* button show the connected flag.
C20_IndicatorTracks ==
    stack = <<>>
        => /\ status_label = (IF connected THEN "Connected" ELSE "Not Connected")
           /\ connection_button = (IF connected THEN "Disconnect" ELSE "Connect")

\* C18: a load_config call made while the file is absent or does not parse
\* returns the documented defaults, and main() builds the client with them.
C18_DefaultsOnFailure ==
    /\ []((loaded.obj # "none" /\ loaded.file \in {"absent", "corrupt"})
            => /\ loaded.modbus.host = "127.0.0.1"
               /\ loaded.modbus.port = 502
               /\ loaded.modbus.auto_reconnect = TRUE
               /\ loaded.modbus.reconnect_delay = 5)
    /\ [][( /\ loaded.obj = "none"
             /\ loaded'.obj # "none"
             /\ loaded'.file \in {"absent", "corrupt"} )
            => /\ host' = "127.0.0.1"
               /\ port' = 502
               /\ auto_reconnect' = TRUE
               /\ reconnect_delay' = 5]_vars

\* C21: every connect attempt goes to the host and port the client holds,
\* which after a successful save_settings with a changed host or port are
\* the saved ones, and such a save_settings leaves no connection to the
\* old endpoint: when it enters connect the client is disconnected.
C21_TargetsSavedEndpoint ==
    \A i \in Frames :
        stack[i].phase = "connecting"
            => /\ client.host = host
               /\ client.port = port
               /\ stack[i].h = "save_settings" => ~connected

\* The step in which save_settings, after save_config returned True, ends:
\* the comparison finds nothing changed, or the connect has returned.
SaveEnds ==
    /\ Running
    /\ Top.h = "save_settings"
    /\ \/ /\ AtStep("apply")
          /\ stack'[Len(stack)].todo = <<>>
       \/ /\ Top.phase = "returned"
          /\ Top.call.op = "connect"

\* C22: when a successful save_settings ends, the client's auto_reconnect
\* and reconnect_delay are those of the form, whether or not host, port or
\* unit ID were changed.
C22_ReconnectSettingsSaved ==
    [][SaveEnds => /\ auto_reconnect' = Top.form.auto_reconnect
                   /\ reconnect_delay' = Top.form.reconnect_delay]_vars

\* The entries of the current alarm list that carry the identifier of PLC
\* alarm register 600+i.
EntriesOf(i) ==
    {k \in 1..Len(alarms) : alarm_objs[alarms[k]].alarm_id = plc_alarm_id(i)}
ListedIds == {alarm_objs[alarms[k]].alarm_id : k \in 1..Len(alarms)}

\* C23: an alarm is added for a PLC alarm register only if no alarm of the
\* current list has its identifier, so the list never holds two entries for
\* one PLC alarm, however polls and acknowledgements interleave.
C23_OneEntryPerAlarm ==
    /\ [](\A i \in 0..7 : Cardinality(EntriesOf(i)) <= 1)
    /\ [][check_plc_alarms
            => \A k \in (Len(alarms) + 1)..Len(alarms') :
                  alarm_objs'[alarms'[k]].alarm_id \notin ListedIds]_vars

\* C24: reset_alarms leaves in the list exactly the alarms that were active,
\* in their order and still active; every alarm it removes is cleared, the
\* acknowledged ones are all removed, and no other alarm is touched.
C24_ResetClearsAcknowledged ==
    [][reset_alarms
        => LET gone == Listed(InfoPage_alarms) \ {alarms'[k] : k \in 1..Len(alarms')}
           IN /\ alarms' = SelectSeq(alarms,
                                      LAMBDA r : alarm_objs[r].status = ACTIVE)
              /\ \A k \in 1..Len(alarms') :
                    alarm_objs'[alarms'[k]].status = ACTIVE
              /\ \A r \in gone : alarm_objs'[r].status = CLEARED
              /\ \A r \in Listed(InfoPage_alarms) :
                    alarm_objs[r].status = ACKNOWLEDGED => r \in gone
              /\ \A r \in DOMAIN alarm_objs \ gone :
                    alarm_objs'[r] = alarm_objs[r]]_vars

\* A reset has removed a cleared alarm and kept an active one that was
\* behind it in the list.
C24_Witness ==
    \E r \in DOMAIN alarm_objs, k \in 1..Len(alarms) :
        /\ r \notin Listed(InfoPage_alarms)
        /\ alarm_objs[r].status = CLEARED
        /\ r < alarms[k]
        /\ alarm_objs[alarms[k]].status = ACTIVE
        /\ \E q \in DOMAIN alarm_objs :
              q > alarms[k] /\ q \notin Listed(InfoPage_alarms)

\* C25: clear() called on an active alarm returns False and leaves it
\* active; called on an acknowledged alarm it clears it and returns True.
C25_ClearOnlyIfNotActive ==
    [][clear
        => LET r == alarm_ret'.ref
           IN /\ alarm_objs[r].status = ACTIVE
                    => /\ alarm_ret'.ret = FALSE
                       /\ alarm_objs'[r].status = ACTIVE
              /\ alarm_objs[r].status = ACKNOWLEDGED
                    => /\ alarm_ret'.ret = TRUE
                       /\ alarm_objs'[r].status = CLEARED]_vars

\* C26: an alarm is created active and its status never goes back
\* (active, acknowledged, cleared, in this order); a cleared alarm stays
\* cleared; acknowledge() changes the status only from active to
\* acknowledged and returns True exactly in that case.
C26_StatusMovesForward ==
    /\ [][/\ \A r \in DOMAIN alarm_objs :
               /\ r \in DOMAIN alarm_objs'
               /\ alarm_objs'[r].status >= alarm_objs[r].status
               /\ alarm_objs[r].status = CLEARED
                     => alarm_objs'[r].status = CLEARED
          /\ \A r \in DOMAIN alarm_objs' \ DOMAIN alarm_objs :
               alarm_objs'[r].status = ACTIVE]_vars
    /\ [][acknowledge
            => LET r == alarm_ret'.ref
               IN /\ alarm_ret'.ret = (alarm_objs[r].status = ACTIVE)
                  /\ alarm_objs'[r].status =
                        (IF alarm_objs[r].status = ACTIVE
                         THEN ACKNOWLEDGED
                         ELSE alarm_objs[r].status)]_vars

\* acknowledge() has been called on a cleared alarm, and an acknowledged
\* alarm is in the list.
C26_Witness ==
    /\ alarm_ret.op = "acknowledge"
    /\ alarm_ret.ret = FALSE
    /\ alarm_objs[alarm_ret.ref].status = CLEARED
    /\ \E k \in 1..Len(alarms) : alarm_objs[alarms[k]].status = ACKNOWLEDGED

Min(a, b) == IF a < b THEN a ELSE b

\* C27: the history holds the alarms added last, at most 100 of them, in
\* the order they were added; the two buttons leave it as it is.
C27_HistoryIsMostRecent ==
    /\ [](LET n == Len(alarm_objs)
              m == Min(n, HistoryLimit)
          IN /\ Len(alarm_history) <= HistoryLimit
             /\ alarm_history = [k \in 1..m |-> n - m + k])
    /\ [][(acknowledge_alarms \/ reset_alarms)
            => alarm_history' = alarm_history]_vars

\* More than 100 alarms have been added: the first ones have left the
\* history, which holds alarms of every status.
C27_Witness ==
    /\ Len(alarm_objs) > HistoryLimit
    /\ Len(alarm_history) = HistoryLimit
    /\ alarm_history[1] > 1
    /\ \E k \in 1..Len(alarm_history) :
          alarm_objs[alarm_history[k]].status = CLEARED
    /\ \E k \in 1..Len(alarm_history) :
          alarm_objs[alarm_history[k]].status = ACTIVE

Toggles == {"toggle_motor", "toggle_heater"}
ToggleItem(h) == IF h = "toggle_motor" THEN "motor" ELSE "heater"

\* C28: toggle_motor and toggle_heater issue no write when the client is
\* disconnected or the coil read yields None; after a read that succeeded
\* they issue exactly one write, of the negation of the coil read; and they
\* change the ON/OFF text only when that write has returned True.
C28_ReadThenWrite ==
    /\ [](\A i \in Frames :
            (stack[i].h \in Toggles /\ stack[i].call.op = "write_coil")
                => /\ stack[i].local \in {<<0>>, <<1>>}
                   /\ stack[i].call.val = <<1 - stack[i].local[1]>>
                   /\ stack[i].call.tcalls <= 1
                   /\ Returned(i) => stack[i].call.tcalls = 1)
    /\ [][(/\ Running
           /\ Top.h \in Toggles
           /\ stack' # stack
           /\ Len(stack') = Len(stack))
            => LET after == stack'[Len(stack)]
               IN /\ (AtStep("guard") /\ ~connected) => after.todo = <<>>
                  /\ (Top.phase = "returned" /\ Top.call.op = "read_coils")
                        => IF Top.call.ret = "list"
                           THEN /\ Len(after.todo) = 1
                                /\ after.todo[1].op = "write_coil"
                                /\ after.local = Top.call.val
                           ELSE after.todo = <<>>
                  /\ (Top.phase = "returned" /\ Top.call.op = "write_coil")
                        => after.todo = <<>>
                  /\ shown' # shown
                        => /\ Top.phase = "returned"
                           /\ Top.call.op = "write_coil"
                           /\ Top.call.ret = "True"
                           /\ shown' = [shown EXCEPT ![ToggleItem(Top.h)] =
                                            on_off(Top.call.val[1])]]_vars

\* toggle_heater has read the coil as on and its write of off has returned
\* True while the display still says ON.
C28_Witness ==
    /\ Running
    /\ Top.h = "toggle_heater"
    /\ Top.phase = "returned"
    /\ Top.call.op = "write_coil"
    /\ Top.call.ret = "True"
    /\ Top.local = <<1>>
    /\ Top.call.val = <<0>>
    /\ shown.heater = "ON"

\* C29: start_auto_process writes the start coil (and so can show Running)
\* only if none of its three parameter writes has returned False: once one
\* has, the write of coil 10 does not reach the transport.
C29_StartAfterParameters ==
    \A i \in Frames :
        (stack[i].h = "start_auto_process" /\ stack[i].failed)
            => ~(stack[i].call.op = "write_coil" /\ stack[i].call.tcalls > 0)

====
